---- MODULE Spec2Model ----
(***************************************************************************)
(* Model of the correlation mining engine (CorrelationAnalyzer), the       *)
(* recommendation engine (RecommendationEngine) and the Dashboard runs     *)
(* that drive them against the shared stores.                              *)
(*                                                                         *)
(* Number representation (the code uses IEEE doubles):                     *)
(*   sentiment scores, confidence scores, signal weights: hundredths       *)
(*   market trend percent                                 : tenths         *)
(*   price_change_percent of a pattern                    : hundredths     *)
(*   prices                                               : whole units    *)
(*   target_price / stop_loss                             : hundredths     *)
(*   timestamps                                           : hours          *)
(* Quotients are kept as [num, den] pairs and compared by cross            *)
(* multiplication, so no comparison depends on a rounded intermediate.     *)
(***************************************************************************)
EXTENDS Integers, Sequences, FiniteSets, TLC

VARIABLES
  news_events,           \* table news_events (sequence of rows, newest first)
  crypto_prices,         \* table crypto_prices (set of rows)
  market_indices,        \* latest SP500 change_percent, in tenths
  correlation_patterns,  \* table correlation_patterns (row id = index)
  recommendations,       \* table recommendations (row id = index)
  now,                   \* wall clock, hours
  pc,                    \* position of each Dashboard run
  cursor,                \* the recordCorrelation calls of a mining pass and the one it is at
  existing,              \* result of the lookup in recordCorrelation
  recs,                  \* batch returned by generateAllRecommendations
  runs,                  \* number of cycles each run has started
  saveLog,               \* observer of the current saveRecommendations call
  input,                 \* RecommendationInput of a direct call
  result,                \* Recommendation returned by a direct call
  query,                 \* arguments of a call of the pattern query layer
  answer,                \* what that call returned
  trend,                 \* TrendPrediction returned by generateMarketTrendPrediction
  lastCallTimes,         \* RateLimiter.lastCallTimes: api name -> times of recorded calls, seconds
  api_usage_logs,        \* table api_usage_logs: api name -> number of rows
  fetchPc,               \* position of each caller of a fetch function
  issued,                \* api name -> times at which an HTTP request was sent to it
  fetches,               \* number of fetch calls started
  clock                  \* Date.now(), seconds

vars == <<news_events, crypto_prices, market_indices, correlation_patterns,
          recommendations, now, pc, cursor, existing, recs, runs, saveLog,
          input, result, query, answer, trend,
          lastCallTimes, api_usage_logs, fetchPc, issued, fetches, clock>>

\* the variables of the calls made outside the Dashboard runs
queryVars == <<query, answer>>
trendVars == <<trend>>
limiterVars == <<lastCallTimes, api_usage_logs, fetchPc, issued, fetches, clock>>
apiVars == <<queryVars, trendVars, limiterVars>>

(***************************************************************************)
(* Bounds of the model                                                     *)
(***************************************************************************)
MaxRuns == 2
MaxNow == 1
MaxNews == 2
MaxPasses == 3
MaxPatterns == 40
MaxTrendNews == 12
MaxRaceRuns == 4
MaxFetches == 7
MaxClockSteps == 2

(***************************************************************************)
(* Program constants                                                       *)
(***************************************************************************)
TIME_WINDOWS == <<1, 4, 12, 24, 48, 72, 168>>
symbols == <<"BTC", "ETH", "BNB", "SOL", "XRP", "ADA", "DOGE", "MATIC", "AVAX", "DOT">>
TOP_CRYPTOS == <<"BTC", "ETH", "BNB", "SOL", "XRP", "ADA", "DOGE", "MATIC", "AVAX", "DOT">>
Slice24h == 24
Slice7d == 168
ExpiryHours == 24

(***************************************************************************)
(* Numbers                                                                 *)
(***************************************************************************)
Abs(x) == IF x < 0 THEN -x ELSE x
Min(a, b) == IF a < b THEN a ELSE b
Max(a, b) == IF a > b THEN a ELSE b

\* a finite quotient num/den (den > 0), or the IEEE results of a division by 0
Num(n, d) == [kind |-> "num", num |-> n, den |-> d]
PosInf == [kind |-> "+inf", num |-> 0, den |-> 1]
NegInf == [kind |-> "-inf", num |-> 0, den |-> 1]
NaN == [kind |-> "nan", num |-> 0, den |-> 1]

\* x > c and x < c for an integer c; every comparison with NaN is false
GT(x, c) == \/ x.kind = "+inf"
            \/ x.kind = "num" /\ x.num > c * x.den
LT(x, c) == \/ x.kind = "-inf"
            \/ x.kind = "num" /\ x.num < c * x.den

\* Math.round of num/den for den > 0: floor(x + 1/2)
MathRound(n, d) == (2 * n + d) \div (2 * d)

\* Number.prototype.toFixed: the value scaled by 10^digits (scale), rounded
\* half away from zero
ToFixed(x, scale) ==
  IF x.kind # "num" THEN x.kind
  ELSE IF x.num >= 0 THEN ToString((2 * x.num * scale + x.den) \div (2 * x.den))
  ELSE "-" \o ToString((2 * (-x.num) * scale + x.den) \div (2 * x.den))

(***************************************************************************)
(* RecommendationEngine.generateRecommendation                             *)
(***************************************************************************)
Slice(s, n) == SubSeq(s, 1, Min(Len(s), n))

calculatePriceChange(prices) ==
  IF Len(prices) < 2 THEN Num(0, 1)
  ELSE LET latest == prices[1]
           previous == prices[Len(prices)]
       IN IF previous # 0 THEN Num((latest - previous) * 100, previous)
          ELSE IF latest > 0 THEN PosInf
          ELSE IF latest < 0 THEN NegInf
          ELSE NaN

ImpactWeight(item) ==
  IF item.impactLevel = "high" THEN 3
  ELSE IF item.impactLevel = "medium" THEN 2 ELSE 1

RECURSIVE SumSeq(_)
SumSeq(s) == IF s = <<>> THEN 0 ELSE Head(s) + SumSeq(Tail(s))

calculateAverageSentiment(news) ==
  IF Len(news) = 0 THEN Num(0, 1)
  ELSE LET weightedSum == SumSeq([i \in 1..Len(news) |-> news[i].sentiment * ImpactWeight(news[i])])
           totalWeight == SumSeq([i \in 1..Len(news) |-> ImpactWeight(news[i])])
       IN IF totalWeight > 0 THEN Num(weightedSum, totalWeight) ELSE Num(0, 1)

Signal(w, d, r) == [weight |-> w, direction |-> d, reason |-> r]

SentimentSignal_PositiveOnly(avgSentiment) ==
  IF GT(avgSentiment, 30)
    THEN <<Signal(30, 1, <<"Positive news sentiment", ToFixed(avgSentiment, 1)>>)>>
  ELSE <<>>

SentimentSignal(avgSentiment) ==
  IF GT(avgSentiment, 30)
    THEN <<Signal(30, 1, <<"Positive news sentiment", ToFixed(avgSentiment, 1)>>)>>
  ELSE IF LT(avgSentiment, -30)
    THEN <<Signal(30, -1, <<"Negative news sentiment", ToFixed(avgSentiment, 1)>>)>>
  ELSE <<>>

Momentum24hSignal(priceChange24h) ==
  IF GT(priceChange24h, 10)
    THEN <<Signal(20, 1, <<"Strong 24h price increase", ToFixed(priceChange24h, 10)>>)>>
  ELSE IF LT(priceChange24h, -10)
    THEN <<Signal(25, -1, <<"Significant 24h price drop", ToFixed(priceChange24h, 10)>>)>>
  ELSE <<>>

Momentum7dSignal(priceChange7d) ==
  IF GT(priceChange7d, 20)
    THEN <<Signal(15, 1, <<"Strong weekly momentum", ToFixed(priceChange7d, 10)>>)>>
  ELSE IF LT(priceChange7d, -20)
    THEN <<Signal(20, -1, <<"Weak weekly performance", ToFixed(priceChange7d, 10)>>)>>
  ELSE <<>>

\* marketTrend is in tenths of a percent
MarketSignal_Inclusive(marketTrend) ==
  IF marketTrend >= 20
    THEN <<Signal(15, 1, <<"Positive market conditions", ToString(marketTrend)>>)>>
  ELSE IF marketTrend <= -20
    THEN <<Signal(15, -1, <<"Negative market conditions", ToString(marketTrend)>>)>>
  ELSE <<>>

MarketSignal(marketTrend) ==
  IF marketTrend > 20
    THEN <<Signal(15, 1, <<"Positive market conditions", ToString(marketTrend)>>)>>
  ELSE IF marketTrend < -20
    THEN <<Signal(15, -1, <<"Negative market conditions", ToString(marketTrend)>>)>>
  ELSE <<>>

highImpactNegativeNews(recentNews) ==
  SelectSeq(recentNews, LAMBDA n : n.impactLevel = "high" /\ n.sentiment < -50)

\* one signal for each high-impact negative item instead of one for all
HighImpactSignal_PerEvent(recentNews) ==
  [i \in 1..Len(highImpactNegativeNews(recentNews)) |->
     Signal(35, -1, <<"high-impact negative event(s)", "1">>)]

HighImpactSignal(recentNews) ==
  IF Len(highImpactNegativeNews(recentNews)) > 0
    THEN <<Signal(35, -1, <<"high-impact negative event(s)",
                            ToString(Len(highImpactNegativeNews(recentNews)))>>)>>
  ELSE <<>>

ExtractSignals(in) ==
  SentimentSignal(calculateAverageSentiment(in.recentNews))
  \o Momentum24hSignal(calculatePriceChange(Slice(in.priceHistory, Slice24h)))
  \o Momentum7dSignal(calculatePriceChange(Slice(in.priceHistory, Slice7d)))
  \o MarketSignal(in.marketTrend)
  \o HighImpactSignal(in.recentNews)

totalScore(signals) == SumSeq([i \in 1..Len(signals) |-> signals[i].direction * signals[i].weight])
totalWeight(signals) == SumSeq([i \in 1..Len(signals) |-> signals[i].weight])

normalizedScore(signals) ==
  IF totalWeight(signals) > 0 THEN Num(totalScore(signals), totalWeight(signals))
  ELSE Num(0, 1)

\* the confidence without its cap
Decide_Unclamped(s) ==
  IF GT(Num(4 * s.num, s.den), 1)
    THEN [action |-> "BUY", confidencePercent |-> MathRound(50 * s.den + 100 * s.num, s.den)]
  ELSE IF LT(Num(4 * s.num, s.den), -1)
    THEN [action |-> "SELL", confidencePercent |-> MathRound(50 * s.den + 100 * Abs(s.num), s.den)]
  ELSE [action |-> "HOLD",
        confidencePercent |-> MathRound(Max(50 * s.den, 75 * s.den - 100 * Abs(s.num)), s.den)]

\* the decision with a score of exactly 0.25 or -0.25 counted as a trade
Decide_Inclusive(s) ==
  IF ~LT(Num(4 * s.num, s.den), 1)
    THEN [action |-> "BUY",
          confidencePercent |-> MathRound(Min(95 * s.den, 50 * s.den + 100 * s.num), s.den)]
  ELSE IF ~GT(Num(4 * s.num, s.den), -1)
    THEN [action |-> "SELL",
          confidencePercent |-> MathRound(Min(95 * s.den, 50 * s.den + 100 * Abs(s.num)), s.den)]
  ELSE [action |-> "HOLD",
        confidencePercent |-> MathRound(Max(50 * s.den, 75 * s.den - 100 * Abs(s.num)), s.den)]

\* action and rounded confidence from the normalized score s
Decide(s) ==
  IF GT(Num(4 * s.num, s.den), 1)
    THEN [action |-> "BUY",
          confidencePercent |-> MathRound(Min(95 * s.den, 50 * s.den + 100 * s.num), s.den)]
  ELSE IF LT(Num(4 * s.num, s.den), -1)
    THEN [action |-> "SELL",
          confidencePercent |-> MathRound(Min(95 * s.den, 50 * s.den + 100 * Abs(s.num)), s.den)]
  ELSE [action |-> "HOLD",
        confidencePercent |-> MathRound(Max(50 * s.den, 75 * s.den - 100 * Abs(s.num)), s.den)]

Undefined == [set |-> FALSE, x100 |-> 0]
Price(x100) == [set |-> TRUE, x100 |-> x100]

currentPrice(priceHistory) == IF Len(priceHistory) > 0 THEN priceHistory[1] ELSE 0

targetPrice_AnyTrade(action, price) ==
  IF action \in {"BUY", "SELL"} THEN Price(price * 115) ELSE Undefined

targetPrice(action, price) == IF action = "BUY" THEN Price(price * 115) ELSE Undefined

stopLoss_SellBelow(action, price) ==
  IF action = "BUY" THEN Price(price * 92)
  ELSE IF action = "SELL" THEN Price(price * 92)
  ELSE Undefined

stopLoss(action, price) ==
  IF action = "BUY" THEN Price(price * 92)
  ELSE IF action = "SELL" THEN Price(price * 108)
  ELSE Undefined

generateRecommendation(in) ==
  LET signals == ExtractSignals(in)
      d == Decide(normalizedScore(signals))
  IN [cryptoSymbol |-> in.cryptoSymbol,
      action |-> d.action,
      confidencePercent |-> d.confidencePercent,
      reasoning |-> [i \in 1..Len(signals) |-> signals[i].reason],
      targetPrice |-> targetPrice(d.action, currentPrice(in.priceHistory)),
      stopLoss |-> stopLoss(d.action, currentPrice(in.priceHistory))]

(***************************************************************************)
(* CorrelationAnalyzer                                                     *)
(***************************************************************************)
RECURSIVE SeqOfSet(_)
\* the rows of a set of price rows, ordered by ascending timestamp
SeqOfSet(S) ==
  IF S = {} THEN <<>>
  ELSE LET first == CHOOSE r \in S : \A q \in S : r.timestamp <= q.timestamp
       IN <<first>> \o SeqOfSet(S \ {first})

Reverse(s) == [i \in 1..Len(s) |-> s[Len(s) + 1 - i]]

\* at most one row: the earliest price of the symbol within one hour of targetDate
getPriceAtTime(symbol, targetDate) ==
  Slice(SeqOfSet({r \in crypto_prices : /\ r.symbol = symbol
                                         /\ r.timestamp >= targetDate - 1
                                         /\ r.timestamp <= targetDate + 1}), 1)

\* events of the last `days` days, newest first (news_events is kept newest first)
getRecentNewsEvents(days) ==
  SelectSeq(news_events, LAMBDA e : e.published_at >= now - days * 24)

\* price change in hundredths of a percent
priceChangePercent(priceAfterEvent, priceBeforeEvent) ==
  ((priceAfterEvent.price_usd - priceBeforeEvent.price_usd) * 10000) \div priceBeforeEvent.price_usd

\* the confidence with magnitude thresholds that count a change equal to them
calculateConfidence_FromThreshold(priceChange, sentimentScore, impactLevel) ==
  LET priceDirection == IF priceChange > 0 THEN 1 ELSE -1
      sentimentDirection == IF sentimentScore > 0 THEN 1 ELSE -1
      confidence == 50
                    + (IF priceDirection = sentimentDirection THEN 20 ELSE 0)
                    + (IF Abs(priceChange) >= 500 THEN 10 ELSE 0)
                    + (IF Abs(priceChange) >= 1000 THEN 10 ELSE 0)
                    + (IF Abs(priceChange) >= 2000 THEN 10 ELSE 0)
                    + (IF impactLevel = "high" THEN 20 ELSE 0)
                    + (IF impactLevel = "medium" THEN 10 ELSE 0)
  IN Min(confidence, 95)

calculateConfidence(priceChange, sentimentScore, impactLevel) ==
  LET priceDirection == IF priceChange > 0 THEN 1 ELSE -1
      sentimentDirection == IF sentimentScore > 0 THEN 1 ELSE -1
      confidence == 50
                    + (IF priceDirection = sentimentDirection THEN 20 ELSE 0)
                    + (IF Abs(priceChange) > 500 THEN 10 ELSE 0)
                    + (IF Abs(priceChange) > 1000 THEN 10 ELSE 0)
                    + (IF Abs(priceChange) > 2000 THEN 10 ELSE 0)
                    + (IF impactLevel = "high" THEN 20 ELSE 0)
                    + (IF impactLevel = "medium" THEN 10 ELSE 0)
  IN Min(confidence, 95)

\* the pattern analyzeEventImpact hands to recordCorrelation
NewPattern(event, symbol, hoursAfter, change) ==
  [event_type |-> event.category,
   event_id |-> event.id,
   crypto_symbol |-> symbol,
   price_change_percent |-> change,
   time_lag_hours |-> hoursAfter,
   confidence_score |-> calculateConfidence(change, event.sentiment_score, event.impact_level),
   occurrence_count |-> 1,
   event_timestamp |-> event.published_at]

\* the (event, symbol, lag) triples in the order of the nested loops
AllTriples(newsEvents) ==
  [k \in 1..(Len(newsEvents) * Len(symbols) * Len(TIME_WINDOWS)) |->
     [event |-> newsEvents[((k - 1) \div (Len(symbols) * Len(TIME_WINDOWS))) + 1],
      symbol |-> symbols[(((k - 1) \div Len(TIME_WINDOWS)) % Len(symbols)) + 1],
      hoursAfter |-> TIME_WINDOWS[((k - 1) % Len(TIME_WINDOWS)) + 1]]]

\* the guard with a change of exactly 1% taken as material
Material_FromOnePercent(t) ==
  LET priceBeforeEvent == getPriceAtTime(t.symbol, t.event.published_at)
      priceAfterEvent == getPriceAtTime(t.symbol, t.event.published_at + t.hoursAfter)
  IN /\ Len(priceBeforeEvent) > 0
     /\ Len(priceAfterEvent) > 0
     /\ Abs(priceAfterEvent[1].price_usd - priceBeforeEvent[1].price_usd) * 100
          >= priceBeforeEvent[1].price_usd

\* the triple reaches recordCorrelation: baseline and lagged price exist and
\* the change is material
Material(t) ==
  LET priceBeforeEvent == getPriceAtTime(t.symbol, t.event.published_at)
      priceAfterEvent == getPriceAtTime(t.symbol, t.event.published_at + t.hoursAfter)
  IN /\ Len(priceBeforeEvent) > 0
     /\ Len(priceAfterEvent) > 0
     /\ Abs(priceAfterEvent[1].price_usd - priceBeforeEvent[1].price_usd) * 100
          > priceBeforeEvent[1].price_usd

PatternOf(t) ==
  NewPattern(t.event, t.symbol, t.hoursAfter,
             priceChangePercent(getPriceAtTime(t.symbol, t.event.published_at + t.hoursAfter)[1],
                                getPriceAtTime(t.symbol, t.event.published_at)[1]))

\* the sequence of recordCorrelation calls of one mining pass
analyzeAllCorrelations ==
  LET kept == SelectSeq(AllTriples(getRecentNewsEvents(30)), Material)
  IN [i \in 1..Len(kept) |-> PatternOf(kept[i])]

SameKey(row, pattern) ==
  /\ row.event_id = pattern.event_id
  /\ row.crypto_symbol = pattern.crypto_symbol
  /\ row.time_lag_hours = pattern.time_lag_hours

MatchingIds(table, pattern) == {i \in 1..Len(table) : SameKey(table[i], pattern)}

\* the lookup without its filter on event_id
selectSingle_NoEvent(table, pattern) ==
  LET ids == {i \in 1..Len(table) : /\ table[i].crypto_symbol = pattern.crypto_symbol
                                    /\ table[i].time_lag_hours = pattern.time_lag_hours}
  IN IF Cardinality(ids) = 1
       THEN LET id == CHOOSE i \in ids : TRUE
            IN [data |-> <<[id |-> id, occurrence_count |-> table[id].occurrence_count]>>,
                error |-> "none"]
     ELSE [data |-> <<>>, error |-> "PGRST116"]

\* the lookup without its filter on time_lag_hours
selectSingle_NoLag(table, pattern) ==
  LET ids == {i \in 1..Len(table) : /\ table[i].event_id = pattern.event_id
                                    /\ table[i].crypto_symbol = pattern.crypto_symbol}
  IN IF Cardinality(ids) = 1
       THEN LET id == CHOOSE i \in ids : TRUE
            IN [data |-> <<[id |-> id, occurrence_count |-> table[id].occurrence_count]>>,
                error |-> "none"]
     ELSE [data |-> <<>>, error |-> "PGRST116"]

\* select('id, occurrence_count') ... .single(): data only when exactly one
\* row matches, otherwise the PGRST116 error with no data
selectSingle(table, pattern) ==
  IF Cardinality(MatchingIds(table, pattern)) = 1
    THEN LET id == CHOOSE i \in MatchingIds(table, pattern) : TRUE
         IN [data |-> <<[id |-> id, occurrence_count |-> table[id].occurrence_count]>>,
             error |-> "none"]
  ELSE [data |-> <<>>, error |-> "PGRST116"]

NoResponse == [data |-> <<>>, error |-> "idle"]
ReadFailure == [data |-> <<>>, error |-> "failure"]

\* the update without the cap on the confidence
updatePattern_Unclamped(row, existingData, pattern) ==
  [row EXCEPT !.occurrence_count = existingData.occurrence_count + 1,
              !.confidence_score = existingData.occurrence_count * 5 + pattern.confidence_score]

\* the update branch of recordCorrelation applied to the row it addresses
updatePattern(row, existingData, pattern) ==
  [row EXCEPT !.occurrence_count = existingData.occurrence_count + 1,
              !.confidence_score = Min(existingData.occurrence_count * 5 + pattern.confidence_score, 95)]

\* the write of recordCorrelation, given the response of its lookup
writePattern(table, response, pattern) ==
  IF Len(response.data) > 0
    THEN [table EXCEPT ![response.data[1].id] = updatePattern(@, response.data[1], pattern)]
  ELSE Append(table, pattern)

(***************************************************************************)
(* RecommendationEngine.generateAllRecommendations / saveRecommendations   *)
(***************************************************************************)
\* news of the last 7 days, newest first, at most 50, as generateRecommendation takes it
recentNewsOf(events) ==
  LET rows == Slice(SelectSeq(events, LAMBDA e : e.published_at >= now - 7 * 24), 50)
  IN [i \in 1..Len(rows) |-> [sentiment |-> rows[i].sentiment_score,
                              impactLevel |-> rows[i].impact_level]]

\* the latest 168 prices of the symbol, newest first
priceHistoryOf(symbol) ==
  LET rows == Slice(Reverse(SeqOfSet({r \in crypto_prices : r.symbol = symbol})), 168)
  IN [i \in 1..Len(rows) |-> rows[i].price_usd]

RecommendationInputOf(symbol) ==
  [cryptoSymbol |-> symbol,
   recentNews |-> recentNewsOf(news_events),
   priceHistory |-> priceHistoryOf(symbol),
   marketTrend |-> market_indices]

\* a batch with a recommendation for every tracked asset, priced or not
generateAllRecommendations_AllTracked ==
  [i \in 1..Len(TOP_CRYPTOS) |-> generateRecommendation(RecommendationInputOf(TOP_CRYPTOS[i]))]

\* the batch: one recommendation for every tracked asset with a price history
generateAllRecommendations ==
  LET withPrices == SelectSeq(TOP_CRYPTOS, LAMBDA c : Len(priceHistoryOf(c)) > 0)
  IN [i \in 1..Len(withPrices) |-> generateRecommendation(RecommendationInputOf(withPrices[i]))]

\* the update filtered on the wrong value of is_active
deactivateActive_WrongFilter(table) ==
  [i \in 1..Len(table) |-> IF ~table[i].is_active THEN [table[i] EXCEPT !.is_active = FALSE]
                           ELSE table[i]]

\* update({ is_active: false }).eq('is_active', true)
deactivateActive(table) ==
  [i \in 1..Len(table) |-> IF table[i].is_active THEN [table[i] EXCEPT !.is_active = FALSE]
                           ELSE table[i]]

\* the record saveRecommendations inserts for one recommendation; batch names
\* the save call that wrote the row
recordOf(rec, batch) ==
  [crypto_symbol |-> rec.cryptoSymbol,
   action |-> rec.action,
   confidence_percent |-> rec.confidencePercent,
   reasoning |-> rec.reasoning,
   target_price |-> rec.targetPrice,
   stop_loss |-> rec.stopLoss,
   is_active |-> TRUE,
   expires_at |-> now + ExpiryHours,
   batch |-> batch]

insertRecords(table, batch, id) ==
  table \o [i \in 1..Len(batch) |-> recordOf(batch[i], id)]

ActiveIds(table) == {i \in 1..Len(table) : table[i].is_active}

(***************************************************************************)
(* Dashboard runs: the interval's refreshRecommendations and the button's  *)
(* refreshData, each generate-then-save cycle split at its store accesses  *)
(***************************************************************************)
Procs == {"scheduled", "manual"}

NoLog == [pre |-> {}, failed |-> FALSE, interleaved |-> FALSE, done |-> FALSE]

\* the recordCorrelation calls of the pass that process p is in; the price
\* store is not written during a pass, so the calls are fixed when it starts
Calls(p) == cursor[p].calls

\* refreshRecommendations / refreshData up to the first event of the pass
StartRun(p, budget) ==
  /\ pc[p] = "idle"
  /\ runs["scheduled"] + runs["manual"] < budget
  /\ runs' = [runs EXCEPT ![p] = @ + 1]
  /\ cursor' = [cursor EXCEPT ![p] = [calls |-> analyzeAllCorrelations, i |-> 1]]
  /\ pc' = [pc EXCEPT ![p] = "lookup"]
  /\ saveLog' = [saveLog EXCEPT ![p] = NoLog]
  /\ UNCHANGED <<news_events, crypto_prices, market_indices, correlation_patterns,
                 recommendations, now, existing, recs, input, result, apiVars>>

\* recordCorrelation: the select of the existing pattern
LookupExisting(p) ==
  /\ pc[p] = "lookup"
  /\ cursor[p].i <= Len(Calls(p))
  /\ existing' = [existing EXCEPT ![p] = selectSingle(correlation_patterns, Calls(p)[cursor[p].i])]
  /\ pc' = [pc EXCEPT ![p] = "write"]
  /\ UNCHANGED <<news_events, crypto_prices, market_indices, correlation_patterns,
                 recommendations, now, cursor, recs, runs, saveLog, input, result, apiVars>>

\* recordCorrelation: the select fails (no data, an error the code does not read)
LookupFails(p) ==
  /\ pc[p] = "lookup"
  /\ cursor[p].i <= Len(Calls(p))
  /\ existing' = [existing EXCEPT ![p] = ReadFailure]
  /\ pc' = [pc EXCEPT ![p] = "write"]
  /\ UNCHANGED <<news_events, crypto_prices, market_indices, correlation_patterns,
                 recommendations, now, cursor, recs, runs, saveLog, input, result, apiVars>>

\* recordCorrelation: the update or the insert
WritePattern(p) ==
  /\ pc[p] = "write"
  /\ correlation_patterns' = writePattern(correlation_patterns, existing[p], Calls(p)[cursor[p].i])
  /\ cursor' = [cursor EXCEPT ![p].i = @ + 1]
  /\ existing' = [existing EXCEPT ![p] = NoResponse]
  /\ pc' = [pc EXCEPT ![p] = "lookup"]
  /\ UNCHANGED <<news_events, crypto_prices, market_indices, recommendations, now,
                 recs, runs, saveLog, input, result, apiVars>>

\* recordCorrelation: the update or the insert fails (the result is discarded)
WriteFails(p) ==
  /\ pc[p] = "write"
  /\ cursor' = [cursor EXCEPT ![p].i = @ + 1]
  /\ existing' = [existing EXCEPT ![p] = NoResponse]
  /\ pc' = [pc EXCEPT ![p] = "lookup"]
  /\ UNCHANGED <<news_events, crypto_prices, market_indices, correlation_patterns,
                 recommendations, now, recs, runs, saveLog, input, result, apiVars>>

\* generateAllRecommendations after the mining pass has returned
GenerateAll(p) ==
  /\ pc[p] = "lookup"
  /\ cursor[p].i > Len(Calls(p))
  /\ recs' = [recs EXCEPT ![p] = generateAllRecommendations]
  /\ pc' = [pc EXCEPT ![p] = "deactivate"]
  /\ UNCHANGED <<news_events, crypto_prices, market_indices, correlation_patterns,
                 recommendations, now, cursor, existing, runs, saveLog, input, result, apiVars>>

\* another save touches the table while q is between its two writes
Disturbed(log, p) ==
  [q \in Procs |-> IF q # p /\ pc[q] = "insert" THEN [log[q] EXCEPT !.interleaved = TRUE]
                   ELSE log[q]]

\* saveRecommendations: the update that deactivates the active rows
Deactivate(p) ==
  /\ pc[p] = "deactivate"
  /\ recommendations' = deactivateActive(recommendations)
  /\ saveLog' = [Disturbed(saveLog, p) EXCEPT ![p].pre = ActiveIds(recommendations)]
  /\ pc' = [pc EXCEPT ![p] = "insert"]
  /\ UNCHANGED <<news_events, crypto_prices, market_indices, correlation_patterns,
                 now, cursor, existing, recs, runs, input, result, apiVars>>

DeactivateFails(p) ==
  /\ pc[p] = "deactivate"
  /\ saveLog' = [saveLog EXCEPT ![p].pre = ActiveIds(recommendations), ![p].failed = TRUE]
  /\ pc' = [pc EXCEPT ![p] = "insert"]
  /\ UNCHANGED <<news_events, crypto_prices, market_indices, correlation_patterns,
                 recommendations, now, cursor, existing, recs, runs, input, result, apiVars>>

\* saveRecommendations: the insert of the new batch
InsertBatch(p) ==
  /\ pc[p] = "insert"
  /\ recommendations' = insertRecords(recommendations, recs[p], <<p, runs[p]>>)
  /\ saveLog' = [Disturbed(saveLog, p) EXCEPT ![p].done = TRUE]
  /\ pc' = [pc EXCEPT ![p] = "idle"]
  /\ UNCHANGED <<news_events, crypto_prices, market_indices, correlation_patterns,
                 now, cursor, existing, recs, runs, input, result, apiVars>>

\* the insert returns an error, which is logged
InsertFails(p) ==
  /\ pc[p] = "insert"
  /\ saveLog' = [saveLog EXCEPT ![p].done = TRUE, ![p].failed = TRUE]
  /\ pc' = [pc EXCEPT ![p] = "idle"]
  /\ UNCHANGED <<news_events, crypto_prices, market_indices, correlation_patterns,
                 recommendations, now, cursor, existing, recs, runs, input, result, apiVars>>

Tick ==
  /\ now < 110 + MaxNow
  /\ now' = now + 1
  /\ UNCHANGED <<news_events, crypto_prices, market_indices, correlation_patterns,
                 recommendations, pc, cursor, existing, recs, runs, saveLog, input, result, apiVars>>

(***************************************************************************)
(* Store contents the runs work on                                         *)
(***************************************************************************)
Tick1(s, t, p) == [symbol |-> s, timestamp |-> t, price_usd |-> p]

EventA == [id |-> 1, category |-> "regulation", sentiment_score |-> 60,
           impact_level |-> "high", published_at |-> 100]
EventB == [id |-> 2, category |-> "tariff", sentiment_score |-> -70,
           impact_level |-> "medium", published_at |-> 100]

NewsScenarios == {<<EventA>>, <<EventB>>, <<EventB, EventA>>}

\* getPriceAtTime takes the earliest tick of the two-hour window, so a tick one
\* hour before the event is the baseline and the tick at the event is the
\* price at lag 1
PricesTwoLags ==
  {Tick1("BTC", 99, 100), Tick1("BTC", 100, 108), Tick1("BTC", 104, 95),
   Tick1("ETH", 99, 200), Tick1("ETH", 100, 201)}
PricesOneLag ==
  {Tick1("BTC", 100, 100), Tick1("BTC", 104, 125),
   Tick1("ETH", 99, 50), Tick1("ETH", 100, 50)}
\* SOL has a price at lag 72 but no baseline, ADA a baseline and no price at
\* lag 1, XRP moves by exactly 1%
PricesTwoAssets ==
  {Tick1("BTC", 100, 100), Tick1("BTC", 104, 125),
   Tick1("ETH", 99, 50), Tick1("ETH", 100, 49), Tick1("SOL", 172, 20),
   Tick1("ADA", 99, 10), Tick1("ADA", 104, 12),
   Tick1("XRP", 99, 100), Tick1("XRP", 100, 101)}

PriceScenarios == {PricesTwoLags, PricesOneLag, PricesTwoAssets}

NoInput == [cryptoSymbol |-> "BTC", recentNews |-> <<>>, priceHistory |-> <<>>, marketTrend |-> 0]
NoResult == [cryptoSymbol |-> "", action |-> "", confidencePercent |-> 0, reasoning |-> <<>>,
             targetPrice |-> Undefined, stopLoss |-> Undefined]

\* no call of the query layer has been made
NoQuery == [op |-> "none", eventCategory |-> "", minConfidence |-> [given |-> FALSE, value |-> 0],
            sentimentScore |-> 0, impactLevel |-> ""]
NoAnswer == [op |-> "none", correlations |-> <<>>, predictions |-> <<>>, failed |-> FALSE]
InitQueryIdle == query = NoQuery /\ answer = NoAnswer

\* generateMarketTrendPrediction has not been called
NoTrend == [prediction_type |-> "none", confidence_percent |-> Num(0, 1),
            average_price_change |-> Num(0, 1), bullish_count |-> 0, bearish_count |-> 0,
            neutral_count |-> 0, news_sentiment_score |-> Num(0, 1)]
InitTrendIdle == trend = NoTrend

\* the rate limiter as constructed, no fetch under way
ApiNames == {"alpha_vantage", "coingecko"}
Callers == {"scheduled", "manual"}
Resting == [at |-> "idle", api |-> ""]
InitLimiter ==
  /\ lastCallTimes = [a \in ApiNames |-> <<>>]
  /\ api_usage_logs = [a \in ApiNames |-> 0]
  /\ fetchPc = [c \in Callers |-> Resting]
  /\ issued = [a \in ApiNames |-> <<>>]
  /\ fetches = 0
  /\ clock = 0
InitApi == InitQueryIdle /\ InitTrendIdle /\ InitLimiter

InitStores ==
  /\ correlation_patterns = <<>>
  /\ recommendations = <<>>
  /\ now = 110
  /\ pc = [p \in Procs |-> "idle"]
  /\ cursor = [p \in Procs |-> [calls |-> <<>>, i |-> 1]]
  /\ existing = [p \in Procs |-> NoResponse]
  /\ recs = [p \in Procs |-> <<>>]
  /\ runs = [p \in Procs |-> 0]
  /\ saveLog = [p \in Procs |-> NoLog]

\* the stores the interleaved runs start from
Init ==
  /\ news_events = <<EventA>>
  /\ crypto_prices \in {PricesTwoLags, PricesOneLag}
  /\ market_indices = 30
  /\ InitStores
  /\ input = NoInput
  /\ result = NoResult
  /\ InitApi

\* the stores the sequential passes start from
InitSeq ==
  /\ news_events \in NewsScenarios
  /\ crypto_prices \in PriceScenarios
  /\ market_indices \in {-30, 0, 30}
  /\ InitStores
  /\ input = NoInput
  /\ result = NoResult
  /\ InitApi

Run(p, budget) ==
  \/ StartRun(p, budget)
  \/ LookupExisting(p)
  \/ WritePattern(p)
  \/ GenerateAll(p)
  \/ Deactivate(p)
  \/ InsertBatch(p)

Fail(p) ==
  \/ LookupFails(p)
  \/ WriteFails(p)
  \/ DeactivateFails(p)
  \/ InsertFails(p)

\* both runs, every store access may fail
Next == (\E p \in Procs : Run(p, MaxRuns) \/ Fail(p)) \/ Tick
Spec == Init /\ [][Next]_vars

\* both runs, no store access fails
NextConc == (\E p \in Procs : Run(p, MaxRuns)) \/ Tick
SpecConc == Init /\ [][NextConc]_vars

\* the scheduled run alone, one cycle after the other, no store access fails
\* overlapping runs with no store failure, over enough cycles for a run to
\* hold a read while the other completes two passes
NextRace == \E p \in Procs : Run(p, MaxRaceRuns)
SpecRace == Init /\ [][NextRace]_vars

NextSeq == Run("scheduled", MaxPasses) \/ Tick
SpecSeq == InitSeq /\ [][NextSeq]_vars

(***************************************************************************)
(* Direct calls of generateRecommendation on enumerated inputs             *)
(***************************************************************************)
Item(s, l) == [sentiment |-> s, impactLevel |-> l]

NewsItems ==
  {Item(80, "high"), Item(40, "low"), Item(30, "medium"), Item(0, "medium"),
   Item(-40, "medium"), Item(-50, "high"), Item(-70, "high"), Item(-70, "low")}

NewsLists == UNION {[1..n -> NewsItems] : n \in 0..MaxNews}

Prices == {0, 92, 100, 115, 125}
HistoryLengths == {0, 1, 2, 24, 25, 169}

\* price a now, b up to 24 hours back, c up to 168 hours back, 1 beyond
History(n, a, b, c) ==
  [i \in 1..n |-> IF i = 1 THEN a ELSE IF i <= 24 THEN b ELSE IF i <= 168 THEN c ELSE 1]

Histories == {History(n, a, b, c) : n \in HistoryLengths, a \in Prices, b \in Prices, c \in Prices}

MarketTrends == {-30, -20, 0, 20, 30}

Inputs ==
  [cryptoSymbol : {"BTC"}, recentNews : NewsLists, priceHistory : Histories,
   marketTrend : MarketTrends]

InitRec ==
  /\ news_events = <<EventA>>
  /\ crypto_prices = {Tick1("BTC", 100, 100)}
  /\ market_indices = 0
  /\ InitStores
  /\ input \in Inputs
  /\ result = NoResult
  /\ InitApi

CallGenerateRecommendation ==
  /\ result = NoResult
  /\ result' = generateRecommendation(input)
  /\ UNCHANGED <<news_events, crypto_prices, market_indices, correlation_patterns,
                 recommendations, now, pc, cursor, existing, recs, runs, saveLog, input,
                 apiVars>>

NextRec == CallGenerateRecommendation
SpecRec == InitRec /\ [][NextRec]_vars

(***************************************************************************)
(* Pattern query layer: getStrongestCorrelations and predictPriceImpact     *)
(* predictions are in 10^-6 (change x sentiment x confidence, hundredths     *)
(* each)                                                                   *)
(***************************************************************************)
QueryLimit == 20
DefaultMinConfidence == 70
PredictMinConfidence == 60

\* the row ids kept by .eq('event_type', ...).gte('confidence_score', ...)
Qualifying(table, eventCategory, minConfidence) ==
  {i \in 1..Len(table) : /\ table[i].event_type = eventCategory
                         /\ table[i].confidence_score >= minConfidence}

\* the order rows of equal confidence come in is the database's choice
Ties == {"oldest first", "newest first"}

Precedes_Ascending(table, i, j, tie) ==
  \/ table[i].confidence_score < table[j].confidence_score
  \/ /\ table[i].confidence_score = table[j].confidence_score
     /\ IF tie = "oldest first" THEN i <= j ELSE i >= j

\* row i comes no later than row j under order('confidence_score', descending)
Precedes(table, i, j, tie) ==
  \/ table[i].confidence_score > table[j].confidence_score
  \/ /\ table[i].confidence_score = table[j].confidence_score
     /\ IF tie = "oldest first" THEN i <= j ELSE i >= j

RECURSIVE OrderByConfidence(_, _, _)
OrderByConfidence(table, ids, tie) ==
  IF ids = {} THEN <<>>
  ELSE LET first == CHOOSE i \in ids : \A j \in ids : Precedes(table, i, j, tie)
       IN <<first>> \o OrderByConfidence(table, ids \ {first}, tie)

\* select('*'): the row with its id
RowOf(table, i) == [id |-> i] @@ table[i]

getStrongestCorrelations(table, eventCategory, minConfidence, tie) ==
  LET ordered == OrderByConfidence(table, Qualifying(table, eventCategory, minConfidence), tie)
  IN [k \in 1..Min(Len(ordered), QueryLimit) |-> RowOf(table, ordered[k])]

\* the data of a query that ended in an error: getStrongestCorrelations returns []
QueryError == <<>>

predictedSymbols_AllTracked(correlations) ==
  {symbols[k] : k \in 1..Len(symbols)}

\* the keys predictPriceImpact creates while it walks the correlations
predictedSymbols(correlations) ==
  {correlations[k].crypto_symbol : k \in 1..Len(correlations)}

\* the multiplier without the division by the direction of the pattern
sentimentMultiplier_Undirected(correlation, sentimentScore) == sentimentScore

\* sentimentScore / (price_change_percent > 0 ? 1 : -1)
sentimentMultiplier(correlation, sentimentScore) ==
  IF correlation.price_change_percent > 0 THEN sentimentScore ELSE -sentimentScore

adjustedPrediction(correlation, sentimentScore) ==
  correlation.price_change_percent * sentimentMultiplier(correlation, sentimentScore)

predictPriceImpact(correlations, sentimentScore, impactLevel) ==
  LET ofSymbol(s) == SelectSeq(correlations, LAMBDA c : c.crypto_symbol = s)
  IN [s \in predictedSymbols(correlations) |->
        [prediction |-> SumSeq([k \in 1..Len(ofSymbol(s)) |->
                                  adjustedPrediction(ofSymbol(s)[k], sentimentScore)
                                    * ofSymbol(s)[k].confidence_score]),
         confidence |-> Num(SumSeq([k \in 1..Len(ofSymbol(s)) |-> ofSymbol(s)[k].confidence_score]),
                            Len(ofSymbol(s)))]]

\* the stored patterns a query runs against
StoredPattern(i, shift) ==
  [event_type |-> IF i % 4 = 0 THEN "tariff" ELSE "regulation",
   event_id |-> i,
   crypto_symbol |-> symbols[((i + shift) % 3) + 1],
   price_change_percent |-> IF i % 2 = 0 THEN 150 + 10 * i ELSE -(150 + 10 * i),
   time_lag_hours |-> TIME_WINDOWS[((i - 1) % Len(TIME_WINDOWS)) + 1],
   confidence_score |-> 50 + 5 * ((i + shift) % 10),
   occurrence_count |-> 1 + ((i + shift) % 10),
   event_timestamp |-> 100]

PatternTable(n, shift) == [i \in 1..n |-> StoredPattern(i, shift)]
PatternTables == {PatternTable(n, shift) : n \in {0, 1, 4, MaxPatterns}, shift \in {0, 3, 7}}

EventCategories == {"regulation", "tariff", "fed_policy"}

\* minConfidence is an optional argument
Omitted == [given |-> FALSE, value |-> 0]
Given(v) == [given |-> TRUE, value |-> v]
effectiveMinConfidence(arg) == IF arg.given THEN arg.value ELSE DefaultMinConfidence

Queries ==
  [op : {"getStrongestCorrelations"}, eventCategory : EventCategories,
   minConfidence : {Omitted, Given(50), Given(70), Given(90), Given(96)},
   sentimentScore : {0}, impactLevel : {""}]
  \cup
  [op : {"predictPriceImpact"}, eventCategory : EventCategories,
   minConfidence : {Omitted}, sentimentScore : {-70, 0, 60}, impactLevel : {"high", "low"}]

\* the variables of the Dashboard runs and of direct calls of the engine
runVars == <<news_events, crypto_prices, market_indices, correlation_patterns,
             recommendations, now, pc, cursor, existing, recs, runs, saveLog,
             input, result>>

InitRunIdle ==
  /\ news_events = <<EventA>>
  /\ crypto_prices = {Tick1("BTC", 100, 100)}
  /\ market_indices = 0
  /\ recommendations = <<>>
  /\ now = 110
  /\ pc = [p \in Procs |-> "idle"]
  /\ cursor = [p \in Procs |-> [calls |-> <<>>, i |-> 1]]
  /\ existing = [p \in Procs |-> NoResponse]
  /\ recs = [p \in Procs |-> <<>>]
  /\ runs = [p \in Procs |-> 0]
  /\ saveLog = [p \in Procs |-> NoLog]
  /\ input = NoInput
  /\ result = NoResult

InitQuery ==
  /\ InitRunIdle
  /\ correlation_patterns \in PatternTables
  /\ query \in Queries
  /\ answer = NoAnswer
  /\ InitTrendIdle
  /\ InitLimiter

CallGetStrongestCorrelations ==
  /\ query.op = "getStrongestCorrelations"
  /\ answer = NoAnswer
  /\ \E tie \in Ties :
       answer' = [op |-> query.op,
                  correlations |-> getStrongestCorrelations(correlation_patterns, query.eventCategory,
                                                            effectiveMinConfidence(query.minConfidence), tie),
                  predictions |-> <<>>,
                  failed |-> FALSE]
  /\ UNCHANGED <<runVars, query, trendVars, limiterVars>>

GetStrongestCorrelationsFails ==
  /\ query.op = "getStrongestCorrelations"
  /\ answer = NoAnswer
  /\ answer' = [op |-> query.op, correlations |-> QueryError, predictions |-> <<>>, failed |-> TRUE]
  /\ UNCHANGED <<runVars, query, trendVars, limiterVars>>

CallPredictPriceImpact ==
  /\ query.op = "predictPriceImpact"
  /\ answer = NoAnswer
  /\ \E tie \in Ties :
       LET correlations == getStrongestCorrelations(correlation_patterns, query.eventCategory,
                                                    PredictMinConfidence, tie)
       IN answer' = [op |-> query.op,
                     correlations |-> correlations,
                     predictions |-> predictPriceImpact(correlations, query.sentimentScore,
                                                        query.impactLevel),
                     failed |-> FALSE]
  /\ UNCHANGED <<runVars, query, trendVars, limiterVars>>

PredictPriceImpactFails ==
  /\ query.op = "predictPriceImpact"
  /\ answer = NoAnswer
  /\ answer' = [op |-> query.op,
                correlations |-> QueryError,
                predictions |-> predictPriceImpact(QueryError, query.sentimentScore, query.impactLevel),
                failed |-> TRUE]
  /\ UNCHANGED <<runVars, query, trendVars, limiterVars>>

NextQuery ==
  \/ CallGetStrongestCorrelations
  \/ GetStrongestCorrelationsFails
  \/ CallPredictPriceImpact
  \/ PredictPriceImpactFails

SpecQuery == InitQuery /\ [][NextQuery]_vars

(***************************************************************************)
(* MarketTrendPredictor.generateMarketTrendPrediction                      *)
(* Arithmetic on the quotients of Num, with the IEEE rules for Infinity    *)
(* and NaN                                                                 *)
(***************************************************************************)
TrendWindowHours == 24
NewsLimit == 50

RECURSIVE GCD(_, _)
GCD(a, b) == IF b = 0 THEN a ELSE GCD(b, a % b)

\* the quotient n/d in lowest terms
Quotient(n, d) == Num(n \div GCD(Abs(n), d), d \div GCD(Abs(n), d))

Plus(x, y) ==
  IF x.kind = "nan" \/ y.kind = "nan" THEN NaN
  ELSE IF x.kind = "num" /\ y.kind = "num" THEN Quotient(x.num * y.den + y.num * x.den, x.den * y.den)
  ELSE IF x.kind = "num" THEN y
  ELSE IF y.kind = "num" \/ x.kind = y.kind THEN x
  ELSE NaN

\* x * n / d for integers n >= 0 and d > 0
Scaled(x, n, d) ==
  IF x.kind = "num" THEN Quotient(x.num * n, x.den * d)
  ELSE IF n = 0 THEN NaN
  ELSE x

MathAbs(x) ==
  IF x.kind = "num" THEN Num(Abs(x.num), x.den)
  ELSE IF x.kind = "nan" THEN NaN
  ELSE PosInf

LessOrEqual(x, y) ==
  /\ x.kind # "nan"
  /\ y.kind # "nan"
  /\ \/ x.kind = "-inf"
     \/ y.kind = "+inf"
     \/ x.kind = "num" /\ y.kind = "num" /\ x.num * y.den <= y.num * x.den

\* Math.min and Math.max return NaN when an argument is NaN
MathMin(x, y) ==
  IF x.kind = "nan" \/ y.kind = "nan" THEN NaN
  ELSE IF LessOrEqual(x, y) THEN x ELSE y

MathMax(x, y) ==
  IF x.kind = "nan" \/ y.kind = "nan" THEN NaN
  ELSE IF LessOrEqual(x, y) THEN y ELSE x

RECURSIVE SumNums(_)
SumNums(s) == IF s = <<>> THEN Num(0, 1) ELSE Plus(Head(s), SumNums(Tail(s)))

\* ((newPrice - oldPrice) / oldPrice) * 100
change24h(oldPrice, newPrice) ==
  IF oldPrice # 0 THEN Quotient((newPrice - oldPrice) * 100, oldPrice)
  ELSE IF newPrice > 0 THEN PosInf
  ELSE IF newPrice < 0 THEN NegInf
  ELSE NaN

\* the prices of a symbol in the last 24 hours, oldest first
symbolPrices(symbol) ==
  SeqOfSet({r \in crypto_prices : r.symbol = symbol /\ r.timestamp >= now - TrendWindowHours})

get24HourPriceChanges ==
  LET changeOf(k) ==
        LET ps == symbolPrices(TOP_CRYPTOS[k])
        IN IF Len(ps) >= 2
             THEN <<[symbol |-> TOP_CRYPTOS[k],
                     change |-> change24h(ps[1].price_usd, ps[Len(ps)].price_usd)]>>
             ELSE <<>>
      RECURSIVE upTo(_)
      upTo(k) == IF k = 0 THEN <<>> ELSE upTo(k - 1) \o changeOf(k)
  IN upTo(Len(TOP_CRYPTOS))

analyzePriceTrends(priceData) ==
  [bullish |-> Len(SelectSeq(priceData, LAMBDA d : GT(d.change, 2))),
   bearish |-> Len(SelectSeq(priceData, LAMBDA d : ~GT(d.change, 2) /\ LT(d.change, -2))),
   neutral |-> Len(SelectSeq(priceData, LAMBDA d : ~GT(d.change, 2) /\ ~LT(d.change, -2))),
   avgChange |-> IF Len(priceData) > 0
                   THEN Scaled(SumNums([k \in 1..Len(priceData) |-> priceData[k].change]),
                               1, Len(priceData))
                   ELSE Num(0, 1)]

NoNews == [sentiment |-> Num(0, 1), count |-> 0]

getRecentNewsSentiment ==
  LET data == Slice(SelectSeq(news_events, LAMBDA e : e.published_at >= now - TrendWindowHours),
                    NewsLimit)
  IN IF Len(data) = 0 THEN NoNews
     ELSE [sentiment |-> Num(SumSeq([k \in 1..Len(data) |-> data[k].sentiment_score]),
                             100 * Len(data)),
           count |-> Len(data)]

\* avgChange * 0.6 + newsSentiment * 0.4
weightedScore(avgChange, newsSentiment) ==
  Plus(Scaled(avgChange, 6, 10), Scaled(newsSentiment, 4, 10))

\* the type decided from the shares of bullish and bearish assets alone
determinePredictionType_ShareOnly(bullish, bearish, neutral, avgChange, newsSentiment) ==
  LET totalCryptos == bullish + bearish + neutral
  IN IF totalCryptos = 0 THEN "neutral"
     ELSE IF bullish * 100 >= 60 * totalCryptos THEN "positive"
     ELSE IF bearish * 100 >= 60 * totalCryptos THEN "negative"
     ELSE "neutral"

determinePredictionType(bullish, bearish, neutral, avgChange, newsSentiment) ==
  LET totalCryptos == bullish + bearish + neutral
  IN IF totalCryptos = 0 THEN "neutral"
     ELSE IF bullish * 100 >= 60 * totalCryptos /\ GT(weightedScore(avgChange, newsSentiment), 1)
       THEN "positive"
     ELSE IF bearish * 100 >= 60 * totalCryptos /\ LT(weightedScore(avgChange, newsSentiment), -1)
       THEN "negative"
     ELSE "neutral"

MarketTrendPredictor_calculateConfidence(bullish, bearish, neutral, avgChange, newsData) ==
  LET totalCryptos == bullish + bearish + neutral
      dominantCount == Max(bullish, Max(bearish, neutral))
      consensusPercent == Num(dominantCount * 100, totalCryptos)
      volatilityFactor == MathMin(Scaled(MathAbs(avgChange), 1, 5), Num(1, 1))
      newsConfidenceFactor == MathMin(Num(newsData.count, 10), Num(1, 1))
      baseConfidence == Plus(Plus(Scaled(consensusPercent, 5, 10), Scaled(volatilityFactor, 20, 1)),
                             Scaled(newsConfidenceFactor, 15, 1))
  IN IF totalCryptos = 0 THEN Num(50, 1)
     ELSE MathMin(MathMax(baseConfidence, Num(50, 1)), Num(95, 1))

\* the TrendPrediction built from the price changes and the news summary read
TrendPrediction(priceData, newsData) ==
  LET t == analyzePriceTrends(priceData)
  IN [prediction_type |-> determinePredictionType(t.bullish, t.bearish, t.neutral, t.avgChange,
                                                  newsData.sentiment),
      confidence_percent |-> MarketTrendPredictor_calculateConfidence(t.bullish, t.bearish, t.neutral,
                                                                      t.avgChange, newsData),
      average_price_change |-> t.avgChange,
      bullish_count |-> t.bullish,
      bearish_count |-> t.bearish,
      neutral_count |-> t.neutral,
      news_sentiment_score |-> newsData.sentiment]

\* the price rows of one asset
TrackKinds == {"none", "single", "stale", "flat", "edge", "up", "down", "zero", "from zero"}
Track(s, kind) ==
  CASE kind = "none" -> {}
    [] kind = "single" -> {Tick1(s, 100, 100)}
    [] kind = "stale" -> {Tick1(s, 80, 100), Tick1(s, 100, 110)}
    [] kind = "flat" -> {Tick1(s, 90, 100), Tick1(s, 100, 100)}
    [] kind = "edge" -> {Tick1(s, 90, 100), Tick1(s, 95, 130), Tick1(s, 100, 102)}
    [] kind = "up" -> {Tick1(s, 90, 100), Tick1(s, 100, 112)}
    [] kind = "down" -> {Tick1(s, 90, 100), Tick1(s, 100, 97)}
    [] kind = "zero" -> {Tick1(s, 90, 0), Tick1(s, 100, 0)}
    [] kind = "from zero" -> {Tick1(s, 90, 0), Tick1(s, 100, 5)}

\* n events of the last day with sentiment s, and one older event
NewsFeed(n, s) ==
  [k \in 1..n |-> [id |-> k, category |-> "regulation", sentiment_score |-> s,
                   impact_level |-> "medium", published_at |-> 100]]
  \o <<[id |-> n + 1, category |-> "regulation", sentiment_score |-> -s,
        impact_level |-> "high", published_at |-> 80]>>

NewsFeeds == {NewsFeed(n, s) : n \in {0, 1, 5, 10, MaxTrendNews}, s \in {-70, 60}}

InitTrend ==
  /\ news_events \in NewsFeeds
  /\ crypto_prices \in {Track("BTC", a) \cup Track("ETH", b) \cup Track("SOL", c) :
                          a \in TrackKinds, b \in TrackKinds, c \in TrackKinds}
  /\ market_indices = 0
  /\ InitStores
  /\ input = NoInput
  /\ result = NoResult
  /\ InitQueryIdle
  /\ trend = NoTrend
  /\ InitLimiter

\* everything generateMarketTrendPrediction leaves alone
nonTrendVars == <<runVars, queryVars, limiterVars>>

GenerateMarketTrendPrediction ==
  /\ trend = NoTrend
  /\ trend' = TrendPrediction(get24HourPriceChanges, getRecentNewsSentiment)
  /\ UNCHANGED nonTrendVars

\* the price query fails: get24HourPriceChanges returns []
TrendPriceReadFails ==
  /\ trend = NoTrend
  /\ trend' = TrendPrediction(<<>>, getRecentNewsSentiment)
  /\ UNCHANGED nonTrendVars

\* the news query fails: getRecentNewsSentiment returns sentiment 0, count 0
TrendNewsReadFails ==
  /\ trend = NoTrend
  /\ trend' = TrendPrediction(get24HourPriceChanges, NoNews)
  /\ UNCHANGED nonTrendVars

NextTrend ==
  \/ GenerateMarketTrendPrediction
  \/ TrendPriceReadFails
  \/ TrendNewsReadFails

SpecTrend == InitTrend /\ [][NextTrend]_vars

(***************************************************************************)
(* RateLimiter and the fetch functions of the API clients (fetchGlobalQuote *)
(* of Alpha Vantage, fetchCurrentPrices of CoinGecko); times in seconds    *)
(***************************************************************************)
CALLS_PER_MINUTE == [alpha_vantage |-> 5, coingecko |-> 30]
\* callsPerDay of Alpha Vantage, callsPerMonth of CoinGecko
CALLS_PER_LONG_WINDOW == [alpha_vantage |-> 500, coingecko |-> 10000]
OneMinute == 60
ClockStep == 30

\* calls.filter(time => time > oneMinuteAgo)
recentCalls(calls, t) == SelectSeq(calls, LAMBDA time : time > t - OneMinute)

\* the synchronous part of canMakeCall: the per-minute test on lastCallTimes
underMinuteLimit(apiName) ==
  Len(recentCalls(lastCallTimes[apiName], clock)) < CALLS_PER_MINUTE[apiName]

\* the count canMakeCall reads from api_usage_logs (every row of the model lies
\* within the last day)
loggedCalls(apiName) == api_usage_logs[apiName]

recordCall(calls, t) == Append(recentCalls(calls, t), t)

\* everything the fetch functions leave alone
nonLimiterVars == <<runVars, queryVars, trendVars>>

\* a fetch function is called and canMakeCall passes its per-minute test; it
\* then awaits the count of api_usage_logs
BeginFetch(c, apiName) ==
  /\ fetchPc[c].at = "idle"
  /\ fetches < MaxFetches
  /\ underMinuteLimit(apiName)
  /\ fetchPc' = [fetchPc EXCEPT ![c] = [at |-> "counting", api |-> apiName]]
  /\ fetches' = fetches + 1
  /\ UNCHANGED <<nonLimiterVars, lastCallTimes, api_usage_logs, issued, clock>>

\* canMakeCall returns false at the per-minute test and the fetch function throws
FetchRefused(c, apiName) ==
  /\ fetchPc[c].at = "idle"
  /\ fetches < MaxFetches
  /\ ~underMinuteLimit(apiName)
  /\ fetches' = fetches + 1
  /\ UNCHANGED <<nonLimiterVars, lastCallTimes, api_usage_logs, fetchPc, issued, clock>>

\* the count arrives; below the long-window limit canMakeCall returns true and
\* the request is sent, otherwise the fetch function throws
SendRequest(c) ==
  /\ fetchPc[c].at = "counting"
  /\ IF loggedCalls(fetchPc[c].api) >= CALLS_PER_LONG_WINDOW[fetchPc[c].api]
       THEN /\ fetchPc' = [fetchPc EXCEPT ![c] = Resting]
            /\ UNCHANGED issued
       ELSE /\ fetchPc' = [fetchPc EXCEPT ![c].at = "fetching"]
            /\ issued' = [issued EXCEPT ![fetchPc[c].api] = Append(@, clock)]
  /\ UNCHANGED <<nonLimiterVars, lastCallTimes, api_usage_logs, fetches, clock>>

\* the response is good: recordCall, then logApiCall(success) is awaited
ResponseOk(c) ==
  /\ fetchPc[c].at = "fetching"
  /\ lastCallTimes' = [lastCallTimes EXCEPT
                         ![fetchPc[c].api] = recordCall(lastCallTimes[fetchPc[c].api], clock)]
  /\ fetchPc' = [fetchPc EXCEPT ![c].at = "logging success"]
  /\ UNCHANGED <<nonLimiterVars, api_usage_logs, issued, fetches, clock>>

\* the request fails (network error, status not ok, error body): the catch
\* block awaits logApiCall(failure) and rethrows; recordCall is not reached
ResponseFails(c) ==
  /\ fetchPc[c].at = "fetching"
  /\ fetchPc' = [fetchPc EXCEPT ![c].at = "logging failure"]
  /\ UNCHANGED <<nonLimiterVars, lastCallTimes, api_usage_logs, issued, fetches, clock>>

\* logApiCall inserts its row and the fetch function returns or rethrows
LogApiCall(c) ==
  /\ fetchPc[c].at \in {"logging success", "logging failure"}
  /\ api_usage_logs' = [api_usage_logs EXCEPT ![fetchPc[c].api] = @ + 1]
  /\ fetchPc' = [fetchPc EXCEPT ![c] = Resting]
  /\ UNCHANGED <<nonLimiterVars, lastCallTimes, issued, fetches, clock>>

ClockTick ==
  /\ clock < MaxClockSteps * ClockStep
  /\ clock' = clock + ClockStep
  /\ UNCHANGED <<nonLimiterVars, lastCallTimes, api_usage_logs, fetchPc, issued, fetches>>

\* the limiter keeps its state per API name, so the clients of the two APIs do
\* not affect each other; a behaviour follows the callers of one of them
InitFetch ==
  /\ InitRunIdle
  /\ correlation_patterns = <<>>
  /\ InitQueryIdle
  /\ InitTrendIdle
  /\ \E apiName \in ApiNames :
       /\ lastCallTimes = [a \in {apiName} |-> <<>>]
       /\ api_usage_logs = [a \in {apiName} |-> 0]
       /\ issued = [a \in {apiName} |-> <<>>]
  /\ fetchPc = [c \in Callers |-> Resting]
  /\ fetches = 0
  /\ clock = 0

NextFetch ==
  \/ \E c \in Callers, apiName \in DOMAIN lastCallTimes : BeginFetch(c, apiName)
  \/ \E c \in Callers, apiName \in DOMAIN lastCallTimes : FetchRefused(c, apiName)
  \/ \E c \in Callers : SendRequest(c)
  \/ \E c \in Callers : ResponseOk(c)
  \/ \E c \in Callers : ResponseFails(c)
  \/ \E c \in Callers : LogApiCall(c)
  \/ ClockTick

SpecFetch == InitFetch /\ [][NextFetch]_vars

(***************************************************************************)
(* Properties                                                              *)
(***************************************************************************)
PatternIds == 1..Len(correlation_patterns)

\* C1: in every reachable state, interleaved mining passes included, the
\* store holds at most one pattern per (event_id, crypto_symbol, time_lag_hours)
C1_UniquePatternKey ==
  \A i, j \in PatternIds :
    SameKey(correlation_patterns[i], correlation_patterns[j]) => i = j

\* C2: in every reachable state of overlapping generate-then-save cycles all
\* active recommendations belong to one batch, at most one per asset
C2_SingleActiveBatch ==
  \A i, j \in ActiveIds(recommendations) :
    /\ recommendations[i].batch = recommendations[j].batch
    /\ recommendations[i].crypto_symbol = recommendations[j].crypto_symbol => i = j

AtPassBoundary(p) == pc[p] \notin {"lookup", "write"}

CleanSaveEnds(p) ==
  /\ pc[p] = "insert"
  /\ pc'[p] = "idle"
  /\ ~saveLog'[p].failed
  /\ ~saveLog'[p].interleaved

\* C4: when a saveRecommendations(batch) call completes without an interleaved
\* save and without a write error, the active rows are exactly the rows of
\* batch, each expiring 24 hours after the save, and every row that was
\* active before the call is inactive
C4_SaveReplacesActiveSet ==
  [][\A p \in Procs :
       CleanSaveEnds(p) =>
         LET base == Len(recommendations)
         IN /\ Len(recommendations') = base + Len(recs[p])
            /\ ActiveIds(recommendations') = (base + 1)..(base + Len(recs[p]))
            /\ \A k \in 1..Len(recs[p]) :
                 /\ recommendations'[base + k].crypto_symbol = recs[p][k].cryptoSymbol
                 /\ recommendations'[base + k].action = recs[p][k].action
                 /\ recommendations'[base + k].confidence_percent = recs[p][k].confidencePercent
                 /\ recommendations'[base + k].expires_at = now + 24
            /\ \A i \in saveLog[p].pre : ~recommendations'[i].is_active]_vars

C4_Witness ==
  \E p \in Procs :
    /\ pc[p] = "idle"
    /\ saveLog[p].done
    /\ ~saveLog[p].failed
    /\ ~saveLog[p].interleaved
    /\ saveLog[p].pre # {}
    /\ Len(recs[p]) > 0
    /\ \A i \in saveLog[p].pre : ~recommendations[i].is_active

\* C5: every stored pattern has confidence_score in [0.5, 0.95], after its
\* insert and after every update
C5_PatternConfidenceRange ==
  \A i \in PatternIds :
    /\ correlation_patterns[i].confidence_score >= 50
    /\ correlation_patterns[i].confidence_score <= 95

C5_Witness ==
  /\ \E i \in PatternIds : correlation_patterns[i].occurrence_count >= 2
  /\ \E i \in PatternIds : correlation_patterns[i].occurrence_count = 1

Called == result # NoResult

\* C6: generateRecommendation returns confidencePercent in [50, 95] for every input
C6_ConfidencePercentRange ==
  Called => /\ result.confidencePercent >= 50
            /\ result.confidencePercent <= 95

C6_Witness ==
  /\ Called
  /\ result.action = "HOLD"
  /\ result.confidencePercent = 50
  /\ Len(result.reasoning) > 1

\* C7: target_price is set iff the action is BUY, stop_loss is set iff the
\* action is BUY or SELL; a HOLD has neither
C7_RiskLevelsByAction ==
  Called => /\ result.targetPrice.set <=> result.action = "BUY"
            /\ result.stopLoss.set <=> result.action \in {"BUY", "SELL"}

C7_Witness ==
  /\ Called
  /\ result.action = "SELL"
  /\ result.stopLoss.set
  /\ ~result.targetPrice.set
  /\ Len(input.priceHistory) = 0

\* the value lies in [lo, hi]
Within(x, lo, hi) == x.kind = "num" /\ x.num >= lo * x.den /\ x.num <= hi * x.den

NoSignalTriggered(in) ==
  /\ Within(calculateAverageSentiment(in.recentNews), -30, 30)
  /\ Within(calculatePriceChange(Slice(in.priceHistory, 24)), -10, 10)
  /\ Within(calculatePriceChange(Slice(in.priceHistory, 168)), -20, 20)
  /\ in.marketTrend >= -20
  /\ in.marketTrend <= 20
  /\ \A i \in 1..Len(in.recentNews) :
       ~(in.recentNews[i].impactLevel = "high" /\ in.recentNews[i].sentiment < -50)

\* C8: with no signal triggered the result is HOLD with confidence 75 and
\* empty reasoning
C8_NoSignalHold75 ==
  (Called /\ NoSignalTriggered(input)) =>
    /\ result.action = "HOLD"
    /\ result.confidencePercent = 75
    /\ result.reasoning = <<>>

C8_Witness ==
  /\ Called
  /\ NoSignalTriggered(input)
  /\ input.recentNews = <<Item(30, "medium"), Item(-50, "high")>>
  /\ input.marketTrend = 20
  /\ input.priceHistory = History(169, 92, 100, 115)
  /\ result.action = "HOLD"

\* C9: when the lookup of a triple fails, the triple is skipped: the write
\* step of that triple leaves the pattern store as it was
C9_FailedTripleSkipped ==
  [][\A p \in Procs :
       (pc[p] = "write" /\ existing[p].error = "failure" /\ pc'[p] = "lookup")
         => correlation_patterns' = correlation_patterns]_vars

ScenarioA ==
  [cryptoSymbol |-> "BTC", recentNews |-> <<Item(80, "high")>>,
   priceHistory |-> History(169, 115, 100, 92), marketTrend |-> 30]
ScenarioB ==
  [cryptoSymbol |-> "BTC", recentNews |-> <<Item(-70, "high")>>,
   priceHistory |-> History(169, 100, 100, 100), marketTrend |-> 0]

SameDirection(signals, d) ==
  /\ Len(signals) > 0
  /\ \A i \in 1..Len(signals) : signals[i].direction = d

\* C10: when every triggered signal points up the result is BUY with
\* confidence 95, target = price x 1.15 and stop_loss = price x 0.92; when
\* every triggered signal points down it is SELL with confidence 95,
\* stop_loss = price x 1.08 and no target; Scenario A is an instance of the
\* first case and Scenario B of the second
C10_UnanimousSignals ==
  Called =>
    /\ SameDirection(ExtractSignals(input), 1) =>
         /\ result.action = "BUY"
         /\ result.confidencePercent = 95
         /\ result.targetPrice = Price(currentPrice(input.priceHistory) * 115)
         /\ result.stopLoss = Price(currentPrice(input.priceHistory) * 92)
    /\ SameDirection(ExtractSignals(input), -1) =>
         /\ result.action = "SELL"
         /\ result.confidencePercent = 95
         /\ result.stopLoss = Price(currentPrice(input.priceHistory) * 108)
         /\ ~result.targetPrice.set
    /\ input = ScenarioA => SameDirection(ExtractSignals(input), 1)
    /\ input = ScenarioB => SameDirection(ExtractSignals(input), -1)

C10_Witness ==
  /\ Called
  /\ input = ScenarioA
  /\ Len(ExtractSignals(input)) = 4
  /\ result.action = "BUY"
  /\ result.targetPrice = Price(13225)

\* the input of Scenario B: one news item of high impact and sentiment -0.7,
\* both price changes and the market trend inside their neutral bands
ScenarioBInput(in) ==
  /\ in.recentNews = <<Item(-70, "high")>>
  /\ Within(calculatePriceChange(Slice(in.priceHistory, 24)), -10, 10)
  /\ Within(calculatePriceChange(Slice(in.priceHistory, 168)), -20, 20)
  /\ in.marketTrend >= -20
  /\ in.marketTrend <= 20

\* C11 as stated: in Scenario B the high-impact signal of weight 0.35 is the
\* only signal triggered and the reasoning has exactly that one description
C11_OnlyHighImpactSignal ==
  (Called /\ ScenarioBInput(input)) =>
    /\ Len(ExtractSignals(input)) = 1
    /\ ExtractSignals(input)[1].weight = 35
    /\ result.reasoning = <<ExtractSignals(input)[1].reason>>

\* C11: in Scenario B two signals are triggered, the negative sentiment
\* signal of weight 0.3 and the high-impact signal of weight 0.35, both
\* pointing down; the reasoning has exactly their two descriptions, in that
\* order, and the result is SELL with confidence 95
C11_SentimentAndHighImpact ==
  (Called /\ ScenarioBInput(input)) =>
    /\ Len(ExtractSignals(input)) = 2
    /\ ExtractSignals(input)[1].weight = 30
    /\ ExtractSignals(input)[1].direction = -1
    /\ ExtractSignals(input)[1].reason[1] = "Negative news sentiment"
    /\ ExtractSignals(input)[2].weight = 35
    /\ ExtractSignals(input)[2].direction = -1
    /\ ExtractSignals(input)[2].reason = <<"high-impact negative event(s)", "1">>
    /\ result.reasoning = <<ExtractSignals(input)[1].reason, ExtractSignals(input)[2].reason>>
    /\ result.action = "SELL"
    /\ result.confidencePercent = 95

C11_Witness ==
  /\ Called
  /\ input = ScenarioB
  /\ Len(result.reasoning) = 2
  /\ result.action = "SELL"

\* the ids of the rows a query returned
ReturnedIds == {answer.correlations[k].id : k \in 1..Len(answer.correlations)}

\* C13: getStrongestCorrelations(category, minConfidence) returns only stored
\* patterns of that category with confidence >= minConfidence (0.7 when the
\* argument is omitted), ordered by confidence descending, at most 20, and no
\* qualifying pattern left out has a higher confidence than a returned one;
\* when nothing qualifies it returns the empty list
C13_StrongestCorrelations ==
  answer.op = "getStrongestCorrelations" =>
    LET cs == answer.correlations
        minConfidence == IF query.minConfidence.given THEN query.minConfidence.value ELSE 70
        qualifies(i) == /\ correlation_patterns[i].event_type = query.eventCategory
                        /\ correlation_patterns[i].confidence_score >= minConfidence
    IN /\ \A k \in 1..Len(cs) :
            /\ cs[k].id \in PatternIds
            /\ cs[k] = [id |-> cs[k].id] @@ correlation_patterns[cs[k].id]
            /\ qualifies(cs[k].id)
       /\ Cardinality(ReturnedIds) = Len(cs)
       /\ \A k \in 1..(Len(cs) - 1) : cs[k].confidence_score >= cs[k + 1].confidence_score
       /\ Len(cs) <= 20
       /\ \A i \in PatternIds \ ReturnedIds :
            qualifies(i) => \A k \in 1..Len(cs) :
                              correlation_patterns[i].confidence_score <= cs[k].confidence_score
       /\ (\A i \in PatternIds : ~qualifies(i)) => cs = <<>>

C13_Witness ==
  /\ answer.op = "getStrongestCorrelations"
  /\ ~answer.failed
  /\ Len(answer.correlations) = 20
  /\ answer.correlations[1].confidence_score > answer.correlations[20].confidence_score
  /\ \E i \in PatternIds \ ReturnedIds :
       /\ correlation_patterns[i].event_type = query.eventCategory
       /\ correlation_patterns[i].confidence_score = answer.correlations[20].confidence_score

\* the assets with a stored pattern of the category at confidence >= 0.6
AssetsWithPattern ==
  {correlation_patterns[i].crypto_symbol :
     i \in {j \in PatternIds : /\ correlation_patterns[j].event_type = query.eventCategory
                               /\ correlation_patterns[j].confidence_score >= 60}}

C15_TrendConfidenceRange ==
  trend # NoTrend => Within(trend.confidence_percent, 50, 95)

SignalsPointing(signals, d) == Len(SelectSeq(signals, LAMBDA g : g.direction = d))

\* C17: whenever generateRecommendation returns BUY, at least two triggered
\* signals point up
C17_BuyNeedsTwoPositiveSignals ==
  (Called /\ result.action = "BUY") => SignalsPointing(ExtractSignals(input), 1) >= 2

\* the requests sent to an API in the 60 seconds ending at time t
SentInWindow(apiName, t) ==
  Len(SelectSeq(issued[apiName], LAMBDA at : at > t - 60 /\ at <= t))

\* C18: for any interleaving of concurrent callers, the number of requests
\* sent to an API within any 60-second window, failed requests included,
\* never exceeds its callsPerMinute (Alpha Vantage 5, CoinGecko 30)
C18_RequestsWithinMinuteLimit ==
  \A apiName \in DOMAIN issued :
    \A k \in 1..Len(issued[apiName]) :
      SentInWindow(apiName, issued[apiName][k]) <=
        (IF apiName = "alpha_vantage" THEN 5 ELSE 30)

\* run p writes the update of a re-discovered key in this step
Rediscovers(p) ==
  /\ pc[p] = "write"
  /\ pc'[p] = "lookup"
  /\ Len(existing[p].data) > 0

\* C19: each re-discovery of an existing key leaves the stored confidence at
\* least as high as it was, and strictly higher unless it was at the cap 0.95
C19_RediscoveryRaisesConfidence ==
  [][\A p \in Procs :
       Rediscovers(p) =>
         LET id == existing[p].data[1].id
         IN /\ correlation_patterns'[id].confidence_score >= correlation_patterns[id].confidence_score
            /\ correlation_patterns[id].confidence_score < 95 =>
                 correlation_patterns'[id].confidence_score > correlation_patterns[id].confidence_score]_vars

\* the price rows of an asset within one hour of time t, and the earliest row of a set
PricesNear(s, t) == {r \in crypto_prices : r.symbol = s /\ Abs(r.timestamp - t) <= 1}
Earliest(S) == CHOOSE r \in S : \A q \in S : r.timestamp <= q.timestamp

\* a baseline price and a lagged price exist and they differ by more than 1%
Qualifies(e, s, lag) ==
  /\ PricesNear(s, e.published_at) # {}
  /\ PricesNear(s, e.published_at + lag) # {}
  /\ Abs(Earliest(PricesNear(s, e.published_at + lag)).price_usd
           - Earliest(PricesNear(s, e.published_at)).price_usd) * 100
       > Earliest(PricesNear(s, e.published_at)).price_usd

MinedTriples ==
  {<<news_events[k], symbols[j], lag>> :
     k \in 1..Len(news_events), j \in 1..Len(symbols), lag \in {1, 4, 12, 24, 48, 72, 168}}

QualifyingKeys ==
  {<<t[1].id, t[2], t[3]>> : t \in {u \in MinedTriples : Qualifies(u[1], u[2], u[3])}}

KeyOf(row) == <<row.event_id, row.crypto_symbol, row.time_lag_hours>>


\* C20: in a mining pass without persistence failures recordCorrelation is
\* called, once, for exactly the triples (event, asset, lag) that have a
\* baseline price within 1 hour of published_at, a price within 1 hour of
\* published_at + lag and a change above 1%; when the pass has ended the store
\* holds a pattern for exactly those keys
C20_UpsertIffMaterial ==
  /\ pc["scheduled"] # "idle" =>
       /\ {KeyOf(Calls("scheduled")[k]) : k \in 1..Len(Calls("scheduled"))} = QualifyingKeys
       /\ Len(Calls("scheduled")) = Cardinality(QualifyingKeys)
  /\ (AtPassBoundary("scheduled") /\ runs["scheduled"] >= 1) =>
       {KeyOf(correlation_patterns[i]) : i \in PatternIds} = QualifyingKeys

C20_Witness ==
  /\ pc["scheduled"] = "idle"
  /\ runs["scheduled"] = 1
  /\ crypto_prices = PricesTwoAssets
  /\ news_events = <<EventB, EventA>>
  /\ <<1, "ADA", 4>> \in {KeyOf(correlation_patterns[i]) : i \in PatternIds}
  /\ <<1, "ADA", 1>> \notin {KeyOf(correlation_patterns[i]) : i \in PatternIds}
  /\ PricesNear("SOL", 172) # {}
  /\ \A i \in PatternIds : correlation_patterns[i].crypto_symbol \notin {"SOL", "XRP"}
  /\ Len(correlation_patterns) = 6

\* the call of recordCorrelation that the step of p completes
CurrentCall(p) == Calls(p)[cursor[p].i]

PriceChanges ==
  {-2500, -2001, -2000, -1001, -1000, -800, -501, -500, -101,
   101, 500, 501, 800, 1000, 1001, 2000, 2001, 2500}

SentimentScores == {-100, -70, -1, 0, 1, 60, 100}
ImpactLevels == {"high", "medium", "low"}

ConfidenceInputs ==
  [priceChange : PriceChanges, sentimentScore : SentimentScores, impactLevel : ImpactLevels]

NoConfidence == [called |-> FALSE, confidence |-> 0]

InitConfidence ==
  /\ news_events = <<EventA>>
  /\ crypto_prices = {Tick1("BTC", 100, 100)}
  /\ market_indices = 0
  /\ InitStores
  /\ input \in ConfidenceInputs
  /\ result = NoConfidence
  /\ InitApi

CallCalculateConfidence ==
  /\ ~result.called
  /\ result' = [called |-> TRUE,
                confidence |-> calculateConfidence(input.priceChange, input.sentimentScore,
                                                   input.impactLevel)]
  /\ UNCHANGED <<news_events, crypto_prices, market_indices, correlation_patterns,
                 recommendations, now, pc, cursor, existing, recs, runs, saveLog, input,
                 apiVars>>

NextConfidence == CallCalculateConfidence
SpecConfidence == InitConfidence /\ [][NextConfidence]_vars

Sign(x) == IF x > 0 THEN 1 ELSE IF x < 0 THEN -1 ELSE 0

\* the parts of the pattern confidence other than the direction bonus
MagnitudeBonus(priceChange) ==
  10 * Cardinality({t \in {500, 1000, 2000} : Abs(priceChange) > t})

ImpactBonus(impactLevel) ==
  IF impactLevel = "high" THEN 20 ELSE IF impactLevel = "medium" THEN 10 ELSE 0

\* C22: the +0.2 direction bonus is in the confidence exactly when the sign of
\* the price change equals the sign of the sentiment score, for every material
\* change and every sentiment, a sentiment of 0 (sign 0) never earning it
C22_DirectionBonusIffSameSign ==
  result.called =>
    LET rest == 50 + MagnitudeBonus(input.priceChange) + ImpactBonus(input.impactLevel)
        bonus == IF Sign(input.priceChange) = Sign(input.sentimentScore) THEN 20 ELSE 0
    IN result.confidence = Min(rest + bonus, 95)

\* C23: for a non-zero sentiment the confidence is min(0.95, 0.5 + 0.2 when the
\* directions match + 0.1 per threshold 5, 10, 20 strictly exceeded + 0.2 high
\* or 0.1 medium), and Scenario C (+8%, +0.6, high) is stored as 0.95
C23_ConfidenceFormula ==
  /\ (result.called /\ input.sentimentScore # 0) =>
       result.confidence =
         Min(50
             + (IF Sign(input.priceChange) = Sign(input.sentimentScore) THEN 20 ELSE 0)
             + (IF Abs(input.priceChange) > 500 THEN 10 ELSE 0)
             + (IF Abs(input.priceChange) > 1000 THEN 10 ELSE 0)
             + (IF Abs(input.priceChange) > 2000 THEN 10 ELSE 0)
             + (IF input.impactLevel = "high" THEN 20 ELSE 0)
             + (IF input.impactLevel = "medium" THEN 10 ELSE 0), 95)
  /\ (result.called /\ input = [priceChange |-> 800, sentimentScore |-> 60, impactLevel |-> "high"]) =>
       result.confidence = 95

\* Scenario C has been computed: its terms sum to 1.0 and 0.95 is returned
C23_Witness ==
  /\ result.called
  /\ input = [priceChange |-> 800, sentimentScore |-> 60, impactLevel |-> "high"]
  /\ 50 + 20 + MagnitudeBonus(800) + ImpactBonus("high") = 100
  /\ result.confidence = 95

\* the normalized score of the call, as the fraction num / den with den > 0
ScoreOf(in) == normalizedScore(ExtractSignals(in))

\* the integer r is the value num / den rounded to the nearest integer
RoundedFrom(r, num, den) == 2 * r * den - den <= 2 * num /\ 2 * num <= 2 * r * den + den

SignalTable(in) ==
  LET avg == calculateAverageSentiment(in.recentNews)
      d24 == calculatePriceChange(Slice(in.priceHistory, 24))
      d7 == calculatePriceChange(Slice(in.priceHistory, 168))
      high == \E i \in 1..Len(in.recentNews) :
                in.recentNews[i].impactLevel = "high" /\ in.recentNews[i].sentiment < -50
      Row(on, w, d, l) == [on |-> on, w |-> w, d |-> d, label |-> l]
  IN << Row(GT(avg, 30), 30, 1, "Positive news sentiment"),
        Row(LT(avg, -30), 30, -1, "Negative news sentiment"),
        Row(GT(d24, 10), 20, 1, "Strong 24h price increase"),
        Row(LT(d24, -10), 25, -1, "Significant 24h price drop"),
        Row(GT(d7, 20), 15, 1, "Strong weekly momentum"),
        Row(LT(d7, -20), 20, -1, "Weak weekly performance"),
        Row(in.marketTrend > 20, 15, 1, "Positive market conditions"),
        Row(in.marketTrend < -20, 15, -1, "Negative market conditions"),
        Row(high, 35, -1, "high-impact negative event(s)") >>

Triggered(in) == SelectSeq(SignalTable(in), LAMBDA r : r.on)

\* C25: the result is decided from the score sum(weight x direction) /
\* sum(weight) over exactly the rows of the signal table whose condition holds
\* (0 when none holds), the high-impact row counted once however many items
\* match; the score lies in [-1, 1]; the reasoning lists the triggered rows in
\* table order
C25_ScoreOverTriggeredSignals ==
  Called =>
    LET t == Triggered(input)
        sw == SumSeq([i \in 1..Len(t) |-> t[i].w])
        sd == SumSeq([i \in 1..Len(t) |-> t[i].w * t[i].d])
        s == ScoreOf(input)
        expected == IF sw > 0 THEN Num(sd, sw) ELSE Num(0, 1)
    IN /\ s.kind = "num" /\ s.den > 0
       /\ s.num * expected.den = expected.num * s.den
       /\ -s.den <= s.num /\ s.num <= s.den
       /\ result.action = Decide(expected).action
       /\ result.confidencePercent = Decide(expected).confidencePercent
       /\ Len(result.reasoning) = Len(t)
       /\ \A i \in 1..Len(t) : result.reasoning[i][1] = t[i].label

\* two high-impact negative items beside a rising signal: three rows trigger
C25_Witness ==
  /\ Called
  /\ Len(highImpactNegativeNews(input.recentNews)) = 2
  /\ SignalsPointing(ExtractSignals(input), 1) >= 1
  /\ Len(result.reasoning) >= 3
  /\ ScoreOf(input).num < 0
  /\ -ScoreOf(input).num < ScoreOf(input).den

\* 0.6 x avg + 0.4 x news lies above c (dir = 1) or below c (dir = -1), for
\* values of the extended reals; with a NaN term neither holds
WeightedBeyond(avg, news, c, dir) ==
  IF avg.kind = "nan" \/ news.kind = "nan" THEN FALSE
  ELSE IF avg.kind = "num" /\ news.kind = "num"
    THEN dir * (6 * avg.num * news.den + 4 * news.num * avg.den)
           > dir * 10 * c * avg.den * news.den
  ELSE IF avg.kind # "num" /\ news.kind # "num" /\ avg.kind # news.kind THEN FALSE
  ELSE LET inf == IF avg.kind # "num" THEN avg.kind ELSE news.kind
       IN inf = (IF dir = 1 THEN "+inf" ELSE "-inf")

\* C26: the prediction type is positive exactly when at least 60% of the
\* counted assets are bullish and 0.6 x average change + 0.4 x news sentiment
\* exceeds 1, negative exactly when at least 60% are bearish and the weighted
\* score is below -1, and neutral otherwise, also when no asset was counted;
\* the conditions of positive and negative never hold together
C26_PredictionType ==
  trend # NoTrend =>
    LET total == trend.bullish_count + trend.bearish_count + trend.neutral_count
        up == /\ total > 0
              /\ 10 * trend.bullish_count >= 6 * total
              /\ WeightedBeyond(trend.average_price_change, trend.news_sentiment_score, 1, 1)
        down == /\ total > 0
                /\ 10 * trend.bearish_count >= 6 * total
                /\ WeightedBeyond(trend.average_price_change, trend.news_sentiment_score, -1, -1)
    IN /\ trend.prediction_type = "positive" <=> up
       /\ trend.prediction_type = "negative" <=> down
       /\ trend.prediction_type = "neutral" <=> (~up /\ ~down)
       /\ ~(up /\ down)

\* at least 60% of the assets are bullish but the weighted score is not
\* above 1: the prediction is neutral
C26_Witness ==
  /\ trend # NoTrend
  /\ trend.bullish_count + trend.bearish_count + trend.neutral_count >= 2
  /\ 10 * trend.bullish_count >=
       6 * (trend.bullish_count + trend.bearish_count + trend.neutral_count)
  /\ ~WeightedBeyond(trend.average_price_change, trend.news_sentiment_score, 1, 1)
  /\ trend.prediction_type = "neutral"

(***************************************************************************)
(* One mining pass with the (event, asset) pairs processed in any order    *)
(***************************************************************************)
\* the calls of recordCorrelation run one after the other, as the nested
\* loops of analyzeAllCorrelations and analyzeEventImpact run them
RECURSIVE recordSequentially(_, _)
recordSequentially(table, calls) ==
  IF calls = <<>> THEN table
  ELSE recordSequentially(writePattern(table, selectSingle(table, Head(calls)), Head(calls)),
                          Tail(calls))

\* the store after n passes run in sequence from an empty store
RECURSIVE AfterPasses(_)
AfterPasses(n) ==
  IF n = 0 THEN <<>> ELSE recordSequentially(AfterPasses(n - 1), analyzeAllCorrelations)

\* one body of the loop over symbols for one event: its calls in lag order
EventAssetPairs == {<<news_events[k].id, symbols[j]>> : k \in 1..Len(news_events), j \in 1..Len(symbols)}

CallsOfPair(w) ==
  SelectSeq(analyzeAllCorrelations, LAMBDA c : c.event_id = w[1] /\ c.crypto_symbol = w[2])

\* a pass is about to process its pairs, after 0 or 1 earlier passes
InitOrder ==
  /\ news_events \in NewsScenarios
  /\ crypto_prices \in PriceScenarios
  /\ market_indices = 0
  /\ recommendations = <<>>
  /\ now = 110
  /\ runs \in {[p \in Procs |-> IF p = "scheduled" THEN n ELSE 0] : n \in 0..1}
  /\ correlation_patterns = AfterPasses(runs["scheduled"])
  /\ pc = [w \in EventAssetPairs |-> "lookup"]
  /\ cursor = [w \in EventAssetPairs |-> [calls |-> CallsOfPair(w), i |-> 1]]
  /\ existing = [w \in EventAssetPairs |-> NoResponse]
  /\ recs = [p \in Procs |-> <<>>]
  /\ saveLog = [p \in Procs |-> NoLog]
  /\ input = NoInput
  /\ result = NoResult
  /\ InitApi

NextOrder == \E w \in DOMAIN pc : LookupExisting(w) \/ WritePattern(w)
SpecOrder == InitOrder /\ [][NextOrder]_vars

RowsOf(table) == {table[i] : i \in 1..Len(table)}

\* every pair has run all its calls
AllPairsDone == \A w \in DOMAIN cursor : cursor[w].i > Len(cursor[w].calls)

\* C27: within one mining pass no two calls of recordCorrelation have the same
\* (event_id, asset, lag) key, and whatever the order and interleaving in which
\* the (event, asset) pairs are processed, the pass ends with the rows that
\* processing them in loop order produces
C27_OrderIndependentPass ==
  /\ \A w1, w2 \in DOMAIN cursor :
       \A i \in 1..Len(cursor[w1].calls), j \in 1..Len(cursor[w2].calls) :
         SameKey(cursor[w1].calls[i], cursor[w2].calls[j]) => (w1 = w2 /\ i = j)
  /\ AllPairsDone =>
       /\ Len(correlation_patterns) = Len(AfterPasses(runs["scheduled"] + 1))
       /\ RowsOf(correlation_patterns) = RowsOf(AfterPasses(runs["scheduled"] + 1))

\* a first pass with at least four calls has ended and its writes did not
\* land in loop order
C27_Witness ==
  /\ AllPairsDone
  /\ runs["scheduled"] = 0
  /\ Len(correlation_patterns) >= 4
  /\ correlation_patterns # AfterPasses(1)

(***************************************************************************)
(* generateAllRecommendations with price reads that fail                   *)
(***************************************************************************)
\* the response of the price reads of one batch: the symbols whose read
\* came back with an error and no data
PriceReadFailure(failed) == [data |-> <<>>, error |-> "failure", symbols |-> failed]

FailedReads(response) == IF response.error = "failure" THEN response.symbols ELSE {}

\* the loop over TOP_CRYPTOS when the price read of the symbols in failed
\* returns no data: priceHistory is null and the symbol is passed over
GenerateAllPriceReadFails(p) ==
  /\ pc[p] = "lookup"
  /\ cursor[p].i > Len(Calls(p))
  /\ \E failed \in (SUBSET {"BTC", "ETH"}) \ {{}} :
       /\ existing' = [existing EXCEPT ![p] = PriceReadFailure(failed)]
       /\ recs' = [recs EXCEPT ![p] =
            LET read == SelectSeq(TOP_CRYPTOS,
                                  LAMBDA c : c \notin failed /\ Len(priceHistoryOf(c)) > 0)
            IN [i \in 1..Len(read) |-> generateRecommendation(RecommendationInputOf(read[i]))]]
  /\ pc' = [pc EXCEPT ![p] = "deactivate"]
  /\ UNCHANGED <<news_events, crypto_prices, market_indices, correlation_patterns,
                 recommendations, now, cursor, runs, saveLog, input, result, apiVars>>

NextBatch == Run("scheduled", MaxRuns) \/ GenerateAllPriceReadFails("scheduled") \/ Tick
SpecBatch == InitSeq /\ [][NextBatch]_vars

\* the step of p in which generateAllRecommendations computes its batch
ComputesBatch(p) == pc[p] = "lookup" /\ pc'[p] = "deactivate"

HasPriceRecord(c) == \E r \in crypto_prices : r.symbol = c

\* C28: the batch is computed only after every call of the mining pass has
\* been made; it holds, in the order of the tracked assets, exactly one
\* recommendation for each tracked asset that has a price record and whose
\* price read did not fail, and none for any other asset; a failed read leaves
\* the recommendations of the other assets as they are without it
C28_BatchPerPricedAsset ==
  [][ComputesBatch("scheduled") =>
       LET failed == FailedReads(existing'["scheduled"])
           emitted == SelectSeq(TOP_CRYPTOS, LAMBDA c : HasPriceRecord(c) /\ c \notin failed)
           batch == recs'["scheduled"]
       IN /\ cursor["scheduled"].i > Len(analyzeAllCorrelations)
          /\ Calls("scheduled") = analyzeAllCorrelations
          /\ Len(batch) = Len(emitted)
          /\ \A i \in 1..Len(emitted) :
               /\ batch[i].cryptoSymbol = emitted[i]
               /\ batch[i] = generateRecommendation(RecommendationInputOf(emitted[i]))]_vars

\* the price read of BTC failed and the batch still holds the recommendations
\* of the other priced assets, none for the assets without prices
C28_Witness ==
  /\ pc["scheduled"] = "deactivate"
  /\ FailedReads(existing["scheduled"]) = {"BTC"}
  /\ HasPriceRecord("BTC")
  /\ Len(recs["scheduled"]) >= 3
  /\ \A i \in 1..Len(recs["scheduled"]) : recs["scheduled"][i].cryptoSymbol # "BTC"
  /\ \E j \in 1..Len(TOP_CRYPTOS) : ~HasPriceRecord(TOP_CRYPTOS[j])

\* C29: for every asset of predictPriceImpact's result the predicted change
\* has the sign of the sentiment score passed in (0 for a sentiment of 0),
\* whether the asset's patterns rose or fell, and the result is the one the
\* same correlations and sentiment give with any other impact level
C29_PredictionFollowsSentiment ==
  answer.op = "predictPriceImpact" =>
    /\ \A s \in DOMAIN answer.predictions :
         Sign(answer.predictions[s].prediction) = Sign(query.sentimentScore)
    /\ \A l \in ImpactLevels :
         predictPriceImpact(answer.correlations, query.sentimentScore, l) = answer.predictions

\* a positive prediction for an asset whose returned patterns all fell, and a
\* negative one for an asset with a pattern that rose
C29_Witness ==
  /\ answer.op = "predictPriceImpact"
  /\ \E s \in DOMAIN answer.predictions :
       \/ /\ query.sentimentScore > 0
          /\ answer.predictions[s].prediction > 0
          /\ \A k \in 1..Len(answer.correlations) :
               answer.correlations[k].crypto_symbol = s =>
                 answer.correlations[k].price_change_percent < 0
       \/ /\ query.sentimentScore < 0
          /\ query.impactLevel = "low"
          /\ answer.predictions[s].prediction < 0
          /\ \E k \in 1..Len(answer.correlations) :
               /\ answer.correlations[k].crypto_symbol = s
               /\ answer.correlations[k].price_change_percent > 0

\* the step ends a save call of p whose deactivation succeeded and whose
\* insert failed, with no other save writing in between
InsertAloneFails(p) ==
  /\ pc[p] = "insert"
  /\ pc'[p] = "idle"
  /\ ~saveLog[p].failed
  /\ saveLog'[p].failed
  /\ ~saveLog[p].interleaved

\* C30: when the insert of the new batch fails inside saveRecommendations, the
\* active recommendations after the call are the ones that were active before
\* it: the previous batch is still active
C30_FailedInsertKeepsActiveSet ==
  [][\A p \in Procs :
       InsertAloneFails(p) => ActiveIds(recommendations') = saveLog[p].pre]_vars

====
